---- MODULE Spec2Model ----
(***************************************************************************)
(* The tree-walking evaluator of the Monkey interpreter                    *)
(* (evaluator package: Eval and its helpers; object package: Environment). *)
(*                                                                         *)
(* The recursive Go function Eval is modelled as an abstract machine:      *)
(* `ctl' is the call that is running (a node being evaluated, or an        *)
(* object being returned to the caller), `stack' holds one frame per Go    *)
(* call that waits for a recursive Eval to return (its position in the     *)
(* code and its locals), and `envs' is the heap of Environment structs,    *)
(* addressed by index so that a *Environment is a number.                  *)
(*                                                                         *)
(* The sources hold the evaluator twice: evaluator/evaluator.go, and, after *)
(* the Environment in object/environment.go, the evaluator with strings,   *)
(* builtins, arrays, index expressions and hashes added. A session runs    *)
(* one of the two (session.evaluator); where they differ the definitions   *)
(* of the first carry the suffix V0.                                       *)
(***************************************************************************)
EXTENDS Integers, Sequences, FiniteSets, TLC

VARIABLES
    session,   \* the evaluator that runs, and the programs the host hands it
    inputs,    \* the programs of the session not yet handed to Eval
    results,   \* what each finished top-level Eval call returned to the host
    ctl,       \* the running call: idle, eval (node, env), ret (val), apply, panic
    stack,     \* frames of the suspended Go calls, innermost first
    envs,      \* heap of Environment structs; envs[1] is the host's environment
    nextId,    \* allocation counter: the identity of the next heap object
    calls,     \* per active applyFunction: the first return reached through blocks
    lastCall   \* the same record for the call that finished last, with its result

vars == <<session, inputs, results, ctl, stack, envs, nextId, calls, lastCall>>

(***************************************************************************)
(* Bounds of the model.                                                    *)
(***************************************************************************)
MaxNest == 2    \* if-blocks nested around a return in the generated bodies
MaxInt == 1     \* integer literals of the operand programs: -MaxInt..MaxInt
MaxEvals == 2   \* top-level Eval calls of an interactive session

(***************************************************************************)
(* object: the kind tags (ObjectType) and the objects.                     *)
(***************************************************************************)
INTEGER_OBJ == "INTEGER"
BOOLEAN_OBJ == "BOOLEAN"
NULL_OBJ == "NULL"
RETURN_VALUE_OBJ == "RETURN_VALUE"
ERROR_OBJ == "ERROR"
FUNCTION_OBJ == "FUNCTION"
STRING_OBJ == "STRING"
BUILTIN_OBJ == "BUILTIN"
ARRAY_OBJ == "ARRAY"
HASH_OBJ == "HASH"

\* A nil object.Object (the zero value of the interface).
NIL == [type |-> "nil"]

\* The three package-level singletons.
NULL == [type |-> NULL_OBJ]
TRUE_OBJ == [type |-> BOOLEAN_OBJ, bool |-> TRUE]
FALSE_OBJ == [type |-> BOOLEAN_OBJ, bool |-> FALSE]

\* &object.Integer{Value: v}; values stay far inside int64 within the bounds.
Integer(v) == [type |-> INTEGER_OBJ, value |-> v]
\* &object.String{Value: s}
String(s) == [type |-> STRING_OBJ, str |-> s]
\* &object.ReturnValue{Value: v}, allocated as object number id
ReturnValue(id, v) == [type |-> RETURN_VALUE_OBJ, id |-> id, value |-> v]
\* &object.Error{Message: m}
Error(m) == [type |-> ERROR_OBJ, message |-> m]
\* &object.Function{Parameters, Body, Env}: Env is a pointer, an index of envs
Function(id, params, body, env) ==
    [type |-> FUNCTION_OBJ, id |-> id, parameters |-> params, body |-> body,
     env |-> env]
\* &object.Array{Elements: elements}
Array(id, elements) == [type |-> ARRAY_OBJ, id |-> id, elements |-> elements]
\* &object.Hash{Pairs: pairs}: pairs maps a hash key to a HashPair
Hash(id, pairs) == [type |-> HASH_OBJ, id |-> id, pairs |-> pairs]
HashPair(k, v) == [key |-> k, value |-> v]
\* an entry of the builtins registry
Builtin(name) == [type |-> BUILTIN_OBJ, name |-> name]

\* The outcome of a Go runtime panic, in place of an object.
Panic(m) == [type |-> "panic", message |-> m]
NilDeref == Panic("invalid memory address or nil pointer dereference")

IsNil(obj) == obj.type = "nil"
IsPanic(obj) == obj.type = "panic"

\* obj.(object.Hashable): Integer, Boolean and String derive a hash key.
Hashable(obj) == obj.type \in {INTEGER_OBJ, BOOLEAN_OBJ, STRING_OBJ}

\* HashKey(): the kind tag and a number or content that discriminates.
HashKey(obj) ==
    CASE obj.type = INTEGER_OBJ -> "INTEGER:" \o ToString(obj.value)
      [] obj.type = BOOLEAN_OBJ -> IF obj.bool THEN "BOOLEAN:1" ELSE "BOOLEAN:0"
      [] obj.type = STRING_OBJ -> "STRING:" \o obj.str

\* left == right on two object.Object interfaces holding pointers.
SamePointer(left, right) ==
    /\ left.type = right.type
    /\ CASE left.type \in {"nil", NULL_OBJ} -> TRUE
         [] left.type = BOOLEAN_OBJ -> left.bool = right.bool
         [] left.type = BUILTIN_OBJ -> left.name = right.name
         [] left.type \in {RETURN_VALUE_OBJ, FUNCTION_OBJ, ARRAY_OBJ, HASH_OBJ} ->
              left.id = right.id
         [] OTHER -> FALSE

(***************************************************************************)
(* object.Environment                                                      *)
(***************************************************************************)
EmptyStore == [n \in {} |-> NIL]

NewEnvironment == [store |-> EmptyStore, outer |-> 0]

NewEnclosedEnvironment(outer) == [NewEnvironment EXCEPT !.outer = outer]

RECURSIVE Get(_, _, _)
Get(heap, e, key) ==
    IF key \in DOMAIN heap[e].store
    THEN [val |-> heap[e].store[key], ok |-> TRUE]
    ELSE IF heap[e].outer # 0
         THEN Get(heap, heap[e].outer, key)
         ELSE [val |-> NIL, ok |-> FALSE]

\* A Set that assigns to the nearest binding of key on the chain when e itself
\* does not bind it.
RECURSIVE SetThrough(_, _, _, _)
SetThrough(heap, e, key, value) ==
    LET here == [heap EXCEPT ![e].store =
                    [n \in (DOMAIN @) \cup {key} |->
                        IF n = key THEN value ELSE @[n]]]
    IN IF key \in DOMAIN heap[e].store \/ ~Get(heap, e, key).ok THEN here
       ELSE SetThrough(heap, heap[e].outer, key, value)

Set(heap, e, key, value) ==
    [heap EXCEPT ![e].store =
        [n \in (DOMAIN @) \cup {key} |-> IF n = key THEN value ELSE @[n]]]

(***************************************************************************)
(* evaluator: the helpers that do not recurse into Eval.                   *)
(***************************************************************************)
nativeBoolToBooleanObject(input) == IF input THEN TRUE_OBJ ELSE FALSE_OBJ

isTruthy(obj) ==
    CASE SamePointer(obj, NULL) -> FALSE
      [] SamePointer(obj, TRUE_OBJ) -> TRUE
      [] SamePointer(obj, FALSE_OBJ) -> FALSE
      [] OTHER -> TRUE

newError(message) == Error(message)

isError(obj) == IF ~IsNil(obj) THEN obj.type = ERROR_OBJ ELSE FALSE

evalBangOperatorExpression(right) ==
    CASE SamePointer(right, TRUE_OBJ) -> FALSE_OBJ
      [] SamePointer(right, FALSE_OBJ) -> TRUE_OBJ
      [] SamePointer(right, NULL) -> TRUE_OBJ
      [] OTHER -> FALSE_OBJ

evalMinusPrefixOperatorExpression(right) ==
    IF IsNil(right) THEN NilDeref
    ELSE IF right.type # INTEGER_OBJ
    THEN newError("unknown operator: -" \o right.type)
    ELSE Integer(-right.value)

evalPrefixExpression(operator, right) ==
    CASE operator = "!" -> evalBangOperatorExpression(right)
      [] operator = "-" -> evalMinusPrefixOperatorExpression(right)
      [] OTHER -> IF IsNil(right) THEN NilDeref
                  ELSE newError("unknown operator: " \o operator \o right.type)

\* Go's / on int64: the quotient truncated toward zero; a zero divisor panics.
Quotient(a, b) ==
    LET abs(x) == IF x < 0 THEN -x ELSE x
        q == abs(a) \div abs(b)
    IN IF (a < 0) # (b < 0) THEN -q ELSE q

evalIntegerInfixExpression(operator, left, right) ==
    LET leftValue == left.value
        rightValue == right.value
    IN CASE operator = "+" -> Integer(leftValue + rightValue)
         [] operator = "-" -> Integer(leftValue - rightValue)
         [] operator = "*" -> Integer(leftValue * rightValue)
         [] operator = "/" ->
              IF rightValue = 0 THEN Panic("integer divide by zero")
              ELSE Integer(Quotient(leftValue, rightValue))
         [] operator = "<" -> nativeBoolToBooleanObject(leftValue < rightValue)
         [] operator = ">" -> nativeBoolToBooleanObject(leftValue > rightValue)
         [] operator = "==" -> nativeBoolToBooleanObject(leftValue = rightValue)
         [] operator = "!=" -> nativeBoolToBooleanObject(leftValue # rightValue)
         [] OTHER -> newError("unknown operator: " \o left.type \o " "
                              \o operator \o " " \o right.type)

evalStringInfixExpression(operator, left, right) ==
    LET leftValue == left.str
        rightValue == right.str
    IN CASE operator = "+" -> String(leftValue \o rightValue)
         [] operator = "==" -> nativeBoolToBooleanObject(leftValue = rightValue)
         [] operator = "!=" -> nativeBoolToBooleanObject(leftValue # rightValue)
         [] OTHER -> newError("unknown operator: " \o left.type \o " "
                              \o operator \o " " \o right.type)

\* evalInfixExpression of evaluator/evaluator.go: no case for two Strings.
evalInfixExpressionV0(operator, left, right) ==
    IF IsNil(left) THEN NilDeref
    ELSE IF left.type = INTEGER_OBJ /\ IsNil(right) THEN NilDeref
    ELSE IF left.type = INTEGER_OBJ /\ right.type = INTEGER_OBJ
    THEN evalIntegerInfixExpression(operator, left, right)
    ELSE IF operator = "==" THEN nativeBoolToBooleanObject(SamePointer(left, right))
    ELSE IF operator = "!=" THEN nativeBoolToBooleanObject(~SamePointer(left, right))
    ELSE IF IsNil(right) THEN NilDeref
    ELSE IF left.type # right.type
    THEN newError("type mismatch: " \o left.type \o " " \o operator \o " "
                  \o right.type)
    ELSE newError("unknown operator: " \o left.type \o " " \o operator \o " "
                  \o right.type)

\* An evalInfixExpression that tests for a type mismatch before == and !=.
evalInfixExpressionStrict(operator, left, right) ==
    IF IsNil(left) \/ IsNil(right) THEN NilDeref
    ELSE IF left.type = INTEGER_OBJ /\ right.type = INTEGER_OBJ
    THEN evalIntegerInfixExpression(operator, left, right)
    ELSE IF left.type = STRING_OBJ /\ right.type = STRING_OBJ
    THEN evalStringInfixExpression(operator, left, right)
    ELSE IF left.type # right.type
    THEN newError("type mismatch: " \o left.type \o " " \o operator \o " "
                  \o right.type)
    ELSE IF operator = "==" THEN nativeBoolToBooleanObject(SamePointer(left, right))
    ELSE IF operator = "!=" THEN nativeBoolToBooleanObject(~SamePointer(left, right))
    ELSE newError("unknown operator: " \o left.type \o " " \o operator \o " "
                  \o right.type)

\* The switch of evalInfixExpression, its cases tried in the order written.
\* left.Type() is called first, so a nil left operand panics; right.Type() is
\* called only where && reaches it or in the last two cases.
evalInfixExpression(operator, left, right) ==
    IF IsNil(left) THEN NilDeref
    ELSE IF left.type = INTEGER_OBJ /\ IsNil(right) THEN NilDeref
    ELSE IF left.type = INTEGER_OBJ /\ right.type = INTEGER_OBJ
    THEN evalIntegerInfixExpression(operator, left, right)
    ELSE IF left.type = STRING_OBJ /\ IsNil(right) THEN NilDeref
    ELSE IF left.type = STRING_OBJ /\ right.type = STRING_OBJ
    THEN evalStringInfixExpression(operator, left, right)
    ELSE IF operator = "==" THEN nativeBoolToBooleanObject(SamePointer(left, right))
    ELSE IF operator = "!=" THEN nativeBoolToBooleanObject(~SamePointer(left, right))
    ELSE IF IsNil(right) THEN NilDeref
    ELSE IF left.type # right.type
    THEN newError("type mismatch: " \o left.type \o " " \o operator \o " "
                  \o right.type)
    ELSE newError("unknown operator: " \o left.type \o " " \o operator \o " "
                  \o right.type)

unwrapReturnValue(obj) ==
    IF obj.type = RETURN_VALUE_OBJ THEN obj.value ELSE obj

evalArrayIndexExpression(array, index) ==
    LET idx == index.value
        max == Len(array.elements) - 1
    IN IF idx < 0 \/ idx > max THEN NULL ELSE array.elements[idx + 1]

evalHashIndexExpression(hash, key) ==
    IF IsNil(key) THEN NilDeref
    ELSE IF ~Hashable(key)
    THEN newError("unusable as hash key: " \o key.type)
    ELSE IF HashKey(key) \notin DOMAIN hash.pairs THEN NULL
    ELSE hash.pairs[HashKey(key)].value

evalIndexExpression(left, index) ==
    IF IsNil(left) THEN NilDeref
    ELSE IF left.type = ARRAY_OBJ /\ IsNil(index) THEN NilDeref
    ELSE IF left.type = ARRAY_OBJ /\ index.type = INTEGER_OBJ
    THEN evalArrayIndexExpression(left, index)
    ELSE IF left.type = HASH_OBJ THEN evalHashIndexExpression(left, index)
    ELSE newError("index operator not supported: " \o left.type)

(***************************************************************************)
(* ast: the node shapes Eval dispatches on, with the fields it reads.      *)
(***************************************************************************)
NoNode == [kind |-> "nil"]
Program(statements) == [kind |-> "Program", statements |-> statements]
ExpressionStatement(expression) ==
    [kind |-> "ExpressionStatement", expression |-> expression]
BlockStatement(statements) ==
    [kind |-> "BlockStatement", statements |-> statements]
ReturnStatement(returnValue) ==
    [kind |-> "ReturnStatement", returnValue |-> returnValue]
LetStatement(name, value) ==
    [kind |-> "LetStatement", name |-> name, value |-> value]
IntegerLiteral(v) == [kind |-> "IntegerLiteral", value |-> v]
Boolean(b) == [kind |-> "Boolean", bool |-> b]
StringLiteral(s) == [kind |-> "StringLiteral", str |-> s]
PrefixExpression(operator, right) ==
    [kind |-> "PrefixExpression", operator |-> operator, right |-> right]
InfixExpression(operator, left, right) ==
    [kind |-> "InfixExpression", operator |-> operator, left |-> left,
     right |-> right]
IfExpression(condition, consequence, alternative) ==
    [kind |-> "IfExpression", condition |-> condition,
     consequence |-> consequence, alternative |-> alternative]
Identifier(name) == [kind |-> "Identifier", name |-> name]
FunctionLiteral(parameters, body) ==
    [kind |-> "FunctionLiteral", parameters |-> parameters, body |-> body]
CallExpression(function, arguments) ==
    [kind |-> "CallExpression", function |-> function, arguments |-> arguments]
ArrayLiteral(elements) == [kind |-> "ArrayLiteral", elements |-> elements]
IndexExpression(left, index) ==
    [kind |-> "IndexExpression", left |-> left, index |-> index]
\* Pairs is a Go map from key node to value node; the sequence lists its
\* entries in source order, which the map itself does not keep.
HashLiteral(pairs) == [kind |-> "HashLiteral", pairs |-> pairs]

(***************************************************************************)
(* The builtins registry: opaque native callables. A call returns exactly  *)
(* one Value, which may be an Error.                                       *)
(***************************************************************************)
builtins == {"len"}

BuiltinResults == {NULL, Integer(0), Error("wrong number of arguments")}

(***************************************************************************)
(* evaluator: the helpers that read or extend the heap.                    *)
(***************************************************************************)
evalIdentifier(heap, node, env) ==
    LET got == Get(heap, env, node.name)
    IN IF got.ok THEN got.val
       ELSE IF node.name \in builtins THEN Builtin(node.name)
       ELSE newError("identifier not found: " \o node.name)

\* evalIdentifier of evaluator/evaluator.go: there are no builtins.
evalIdentifierV0(heap, node, env) ==
    LET got == Get(heap, env, node.name)
    IN IF got.ok THEN got.val
       ELSE newError("identifier not found: " \o node.name)

\* The loop of extendFunctionEnv from parameter paramIdx on.
RECURSIVE bindParameters(_, _, _, _, _)
bindParameters(heap, e, parameters, args, paramIdx) ==
    IF paramIdx > Len(parameters) THEN heap
    ELSE bindParameters(Set(heap, e, parameters[paramIdx], args[paramIdx]),
                        e, parameters, args, paramIdx + 1)

\* An extendFunctionEnv that encloses the new environment in the host's
\* top-level environment instead of the one the function captured.
extendFunctionEnvTopLevel(heap, fn, args) ==
    LET e == Len(heap) + 1
        fresh == Append(heap, NewEnclosedEnvironment(1))
    IN IF Len(args) < Len(fn.parameters)
       THEN [panic |-> TRUE, heap |-> heap, env |-> 0]
       ELSE [panic |-> FALSE, env |-> e,
             heap |-> bindParameters(fresh, e, fn.parameters, args, 1)]

\* extendFunctionEnv: the heap with the new environment, and its address.
\* args[paramIdx] panics when the call has fewer arguments than parameters.
extendFunctionEnv(heap, fn, args) ==
    LET e == Len(heap) + 1
        fresh == Append(heap, NewEnclosedEnvironment(fn.env))
    IN IF Len(args) < Len(fn.parameters)
       THEN [panic |-> TRUE, heap |-> heap, env |-> 0]
       ELSE [panic |-> FALSE, env |-> e,
             heap |-> bindParameters(fresh, e, fn.parameters, args, 1)]

\* A closure that keeps a copy of env made when the literal is evaluated.
evalFunctionLiteralCopy(heap, id, node, env) ==
    [heap |-> Append(heap, heap[env]),
     val |-> Function(id, node.parameters, node.body, Len(heap) + 1)]

\* The FunctionLiteral case of Eval: the closure keeps the pointer env, and
\* the heap is left as it is.
evalFunctionLiteral(heap, id, node, env) ==
    [heap |-> heap, val |-> Function(id, node.parameters, node.body, env)]

\* An Eval that does not test the slice evalExpressions returns.
afterExpressionsUnchecked(caller, function, args, id) ==
    IF caller = "CallExpression"
    THEN [mode |-> "apply", fn |-> function, args |-> args]
    ELSE [mode |-> "ret", val |-> Array(id, args)]

\* What Eval does with the result of evalExpressions, for a call and for an
\* array literal.
afterExpressions(caller, function, args, id) ==
    IF Len(args) = 1 /\ isError(args[1]) THEN [mode |-> "ret", val |-> args[1]]
    ELSE IF caller = "CallExpression"
    THEN [mode |-> "apply", fn |-> function, args |-> args]
    ELSE [mode |-> "ret", val |-> Array(id, args)]

(***************************************************************************)
(* The machine.                                                            *)
(***************************************************************************)
Ret(v) == [mode |-> "ret", val |-> v]
EvalCtl(n, e) == [mode |-> "eval", node |-> n, env |-> e]
\* Return obj to the caller, or abort the process when obj is a panic.
Finish(obj) ==
    IF IsPanic(obj) THEN [mode |-> "panic", msg |-> obj.message] ELSE Ret(obj)

\* The two evaluators of the sources.
Evaluators == {"evaluator.go", "environment.go"}
Extended == session.evaluator = "environment.go"
\* The node kinds only the switch of the extended Eval has a case for.
ExtendedKinds ==
    {"StringLiteral", "ArrayLiteral", "IndexExpression", "HashLiteral"}

Evaluating(kind) ==
    /\ ctl.mode = "eval"
    /\ ctl.node.kind = kind
    /\ kind \in ExtendedKinds => Extended
Returning(kind) ==
    ctl.mode = "ret" /\ stack # <<>> /\ Head(stack).kind = kind
Push(frame) == <<frame>> \o stack

hostVars == <<session, inputs, results>>
ghostVars == <<calls, lastCall>>

\* Whether only blocks separate the top of s from the function call in it.
RECURSIVE ThroughBlocks(_)
ThroughBlocks(s) ==
    /\ s # <<>>
    /\ \/ Head(s).kind = "applyFunction"
       \/ Head(s).kind = "evalStatements" /\ ThroughBlocks(Tail(s))

NoCall == [firstReturn |-> NIL, after |-> 0, env |-> 0, captured |-> 0]

(***************************************************************************)
(* evaluator: what the statement loops and the statement cases do with the *)
(* result of a recursive Eval.                                             *)
(***************************************************************************)
\* evalProgram's type switch: [stop, val] for the result of one statement.
evalProgramResult(result) ==
    CASE result.type = RETURN_VALUE_OBJ -> [stop |-> TRUE, val |-> result.value]
      [] result.type = ERROR_OBJ -> [stop |-> TRUE, val |-> result]
      [] OTHER -> [stop |-> FALSE, val |-> result]

\* An evalStatements that unwraps a ReturnValue as evalProgram does.
evalStatementsResultUnwrapped(result) == evalProgramResult(result)

\* evalStatements' test: a ReturnValue or an Error ends the block as it is.
evalStatementsResult(result) ==
    IF ~IsNil(result) /\ result.type \in {RETURN_VALUE_OBJ, ERROR_OBJ}
    THEN [stop |-> TRUE, val |-> result]
    ELSE [stop |-> FALSE, val |-> result]

\* The ReturnStatement case after its value is evaluated.
evalReturnStatement(id, returnValueEvaluated) ==
    IF isError(returnValueEvaluated) THEN returnValueEvaluated
    ELSE ReturnValue(id, returnValueEvaluated)

\* The LetStatement case after its value is evaluated: the heap it leaves.
evalLetStatement(heap, env, name, evaluated) ==
    IF isError(evaluated) THEN heap ELSE Set(heap, env, name, evaluated)

(***************************************************************************)
(* The host: one Eval call per program of the session, all on envs[1].     *)
(***************************************************************************)
HostEval ==
    /\ ctl.mode = "idle"
    /\ inputs # <<>>
    /\ ctl' = EvalCtl(Head(inputs), 1)
    /\ inputs' = Tail(inputs)
    /\ UNCHANGED <<session, results, stack, envs, nextId, ghostVars>>

HostReturn ==
    /\ ctl.mode = "ret"
    /\ stack = <<>>
    /\ results' = Append(results, ctl.val)
    /\ ctl' = [mode |-> "idle"]
    /\ UNCHANGED <<session, inputs, stack, envs, nextId, ghostVars>>

(***************************************************************************)
(* Eval: statements.                                                       *)
(***************************************************************************)
EvalProgram ==
    /\ Evaluating("Program")
    /\ IF Len(ctl.node.statements) = 0
       THEN ctl' = Ret(NIL) /\ stack' = stack
       ELSE /\ ctl' = EvalCtl(ctl.node.statements[1], ctl.env)
            /\ stack' = Push([kind |-> "evalProgram", i |-> 1, env |-> ctl.env,
                              stmts |-> ctl.node.statements])
    /\ UNCHANGED <<hostVars, envs, nextId, ghostVars>>

evalProgramNext ==
    /\ Returning("evalProgram")
    /\ LET f == Head(stack)
           r == evalProgramResult(ctl.val)
       IN IF r.stop \/ f.i = Len(f.stmts)
          THEN ctl' = Ret(r.val) /\ stack' = Tail(stack)
          ELSE /\ ctl' = EvalCtl(f.stmts[f.i + 1], f.env)
               /\ stack' = <<[f EXCEPT !.i = f.i + 1]>> \o Tail(stack)
    /\ UNCHANGED <<hostVars, envs, nextId, ghostVars>>

EvalExpressionStatement ==
    /\ Evaluating("ExpressionStatement")
    /\ ctl' = EvalCtl(ctl.node.expression, ctl.env)
    /\ UNCHANGED <<hostVars, stack, envs, nextId, ghostVars>>

EvalBlockStatement ==
    /\ Evaluating("BlockStatement")
    /\ IF Len(ctl.node.statements) = 0
       THEN ctl' = Ret(NIL) /\ stack' = stack
       ELSE /\ ctl' = EvalCtl(ctl.node.statements[1], ctl.env)
            /\ stack' = Push([kind |-> "evalStatements", i |-> 1,
                              env |-> ctl.env, stmts |-> ctl.node.statements])
    /\ UNCHANGED <<hostVars, envs, nextId, ghostVars>>

evalStatementsNext ==
    /\ Returning("evalStatements")
    /\ LET f == Head(stack)
           r == evalStatementsResult(ctl.val)
       IN IF r.stop \/ f.i = Len(f.stmts)
          THEN /\ ctl' = Ret(r.val)
               /\ stack' = Tail(stack)
               /\ calls' = calls
          ELSE /\ ctl' = EvalCtl(f.stmts[f.i + 1], f.env)
               /\ stack' = <<[f EXCEPT !.i = f.i + 1]>> \o Tail(stack)
               /\ calls' = IF /\ ThroughBlocks(stack)
                              /\ ~IsNil(Head(calls).firstReturn)
                           THEN <<[Head(calls) EXCEPT !.after = @ + 1]>>
                                \o Tail(calls)
                           ELSE calls
    /\ UNCHANGED <<hostVars, envs, nextId, lastCall>>

EvalReturnStatement ==
    /\ Evaluating("ReturnStatement")
    /\ ctl' = EvalCtl(ctl.node.returnValue, ctl.env)
    /\ stack' = Push([kind |-> "ReturnStatement"])
    /\ UNCHANGED <<hostVars, envs, nextId, ghostVars>>

ReturnStatementDone ==
    /\ Returning("ReturnStatement")
    /\ LET r == evalReturnStatement(nextId, ctl.val)
       IN /\ ctl' = Ret(r)
          /\ nextId' = IF isError(ctl.val) THEN nextId ELSE nextId + 1
          /\ calls' = IF /\ r.type = RETURN_VALUE_OBJ
                         /\ ThroughBlocks(Tail(stack))
                         /\ IsNil(Head(calls).firstReturn)
                      THEN <<[Head(calls) EXCEPT !.firstReturn = r]>>
                           \o Tail(calls)
                      ELSE calls
    /\ stack' = Tail(stack)
    /\ UNCHANGED <<hostVars, envs, lastCall>>

EvalLetStatement ==
    /\ Evaluating("LetStatement")
    /\ ctl' = EvalCtl(ctl.node.value, ctl.env)
    /\ stack' = Push([kind |-> "LetStatement", name |-> ctl.node.name,
                      env |-> ctl.env])
    /\ UNCHANGED <<hostVars, envs, nextId, ghostVars>>

\* An Error is returned; otherwise the name is bound and Eval falls out of
\* its switch to `return nil'.
LetStatementDone ==
    /\ Returning("LetStatement")
    /\ LET f == Head(stack)
       IN /\ envs' = evalLetStatement(envs, f.env, f.name, ctl.val)
          /\ ctl' = IF isError(ctl.val) THEN Ret(ctl.val) ELSE Ret(NIL)
    /\ stack' = Tail(stack)
    /\ UNCHANGED <<hostVars, nextId, ghostVars>>

(***************************************************************************)
(* Eval: literals, operators, if, identifiers.                             *)
(***************************************************************************)
\* evaluator/evaluator.go: no case of the switch matches the node, and Eval
\* ends with `return nil'.
EvalNoCase ==
    /\ ctl.mode = "eval"
    /\ ctl.node.kind \in ExtendedKinds
    /\ ~Extended
    /\ ctl' = Ret(NIL)
    /\ UNCHANGED <<hostVars, stack, envs, nextId, ghostVars>>

EvalIntegerLiteral ==
    /\ Evaluating("IntegerLiteral")
    /\ ctl' = Ret(Integer(ctl.node.value))
    /\ UNCHANGED <<hostVars, stack, envs, nextId, ghostVars>>

EvalBoolean ==
    /\ Evaluating("Boolean")
    /\ ctl' = Ret(nativeBoolToBooleanObject(ctl.node.bool))
    /\ UNCHANGED <<hostVars, stack, envs, nextId, ghostVars>>

EvalStringLiteral ==
    /\ Evaluating("StringLiteral")
    /\ ctl' = Ret(String(ctl.node.str))
    /\ UNCHANGED <<hostVars, stack, envs, nextId, ghostVars>>

EvalPrefixExpression ==
    /\ Evaluating("PrefixExpression")
    /\ ctl' = EvalCtl(ctl.node.right, ctl.env)
    /\ stack' = Push([kind |-> "PrefixExpression",
                      operator |-> ctl.node.operator])
    /\ UNCHANGED <<hostVars, envs, nextId, ghostVars>>

PrefixRightDone ==
    /\ Returning("PrefixExpression")
    /\ ctl' = IF isError(ctl.val) THEN Ret(ctl.val)
              ELSE Finish(evalPrefixExpression(Head(stack).operator, ctl.val))
    /\ stack' = Tail(stack)
    /\ UNCHANGED <<hostVars, envs, nextId, ghostVars>>

EvalInfixExpression ==
    /\ Evaluating("InfixExpression")
    /\ ctl' = EvalCtl(ctl.node.left, ctl.env)
    /\ stack' = Push([kind |-> "InfixLeft", operator |-> ctl.node.operator,
                      right |-> ctl.node.right, env |-> ctl.env])
    /\ UNCHANGED <<hostVars, envs, nextId, ghostVars>>

InfixLeftDone ==
    /\ Returning("InfixLeft")
    /\ LET f == Head(stack)
       IN IF isError(ctl.val)
          THEN ctl' = Ret(ctl.val) /\ stack' = Tail(stack)
          ELSE /\ ctl' = EvalCtl(f.right, f.env)
               /\ stack' = <<[kind |-> "InfixRight", operator |-> f.operator,
                              left |-> ctl.val]>> \o Tail(stack)
    /\ UNCHANGED <<hostVars, envs, nextId, ghostVars>>

InfixRightDone ==
    /\ Returning("InfixRight")
    /\ LET f == Head(stack)
       IN ctl' = IF isError(ctl.val) THEN Ret(ctl.val)
                 ELSE IF Extended
                 THEN Finish(evalInfixExpression(f.operator, f.left, ctl.val))
                 ELSE Finish(evalInfixExpressionV0(f.operator, f.left, ctl.val))
    /\ stack' = Tail(stack)
    /\ UNCHANGED <<hostVars, envs, nextId, ghostVars>>

EvalIfExpression ==
    /\ Evaluating("IfExpression")
    /\ ctl' = EvalCtl(ctl.node.condition, ctl.env)
    /\ stack' = Push([kind |-> "evalIfExpression", ie |-> ctl.node,
                      env |-> ctl.env])
    /\ UNCHANGED <<hostVars, envs, nextId, ghostVars>>

\* evalIfExpression after the condition: the branch is a tail call.
evalIfExpression ==
    /\ Returning("evalIfExpression")
    /\ LET f == Head(stack)
       IN ctl' = IF isError(ctl.val) THEN Ret(ctl.val)
                 ELSE IF isTruthy(ctl.val)
                 THEN EvalCtl(f.ie.consequence, f.env)
                 ELSE IF f.ie.alternative.kind # "nil"
                 THEN EvalCtl(f.ie.alternative, f.env)
                 ELSE Ret(NULL)
    /\ stack' = Tail(stack)
    /\ UNCHANGED <<hostVars, envs, nextId, ghostVars>>

EvalIdentifier ==
    /\ Evaluating("Identifier")
    /\ ctl' = IF Extended THEN Ret(evalIdentifier(envs, ctl.node, ctl.env))
              ELSE Ret(evalIdentifierV0(envs, ctl.node, ctl.env))
    /\ UNCHANGED <<hostVars, stack, envs, nextId, ghostVars>>

EvalFunctionLiteral ==
    /\ Evaluating("FunctionLiteral")
    /\ LET x == evalFunctionLiteral(envs, nextId, ctl.node, ctl.env)
       IN ctl' = Ret(x.val) /\ envs' = x.heap
    /\ nextId' = nextId + 1
    /\ UNCHANGED <<hostVars, stack, ghostVars>>

(***************************************************************************)
(* Eval: calls and array literals.                                         *)
(***************************************************************************)
EvalCallExpression ==
    /\ Evaluating("CallExpression")
    /\ ctl' = EvalCtl(ctl.node.function, ctl.env)
    /\ stack' = Push([kind |-> "CallFunction",
                      arguments |-> ctl.node.arguments, env |-> ctl.env])
    /\ UNCHANGED <<hostVars, envs, nextId, ghostVars>>

\* Enter evalExpressions(exps, env) on behalf of caller: with nothing to
\* evaluate it returns its nil slice at once.
StartExpressions(caller, function, exps, env, rest) ==
    IF Len(exps) = 0
    THEN /\ ctl' = afterExpressions(caller, function, <<>>, nextId)
         /\ stack' = rest
         /\ nextId' = IF caller = "ArrayLiteral" THEN nextId + 1 ELSE nextId
    ELSE /\ ctl' = EvalCtl(exps[1], env)
         /\ stack' = <<[kind |-> "evalExpressions", caller |-> caller,
                        function |-> function, exps |-> exps, i |-> 1,
                        result |-> <<>>, env |-> env]>> \o rest
         /\ nextId' = nextId

CallFunctionDone ==
    /\ Returning("CallFunction")
    /\ LET f == Head(stack)
       IN IF isError(ctl.val)
          THEN ctl' = Ret(ctl.val) /\ stack' = Tail(stack) /\ nextId' = nextId
          ELSE StartExpressions("CallExpression", ctl.val, f.arguments, f.env,
                                Tail(stack))
    /\ UNCHANGED <<hostVars, envs, ghostVars>>

EvalArrayLiteral ==
    /\ Evaluating("ArrayLiteral")
    /\ StartExpressions("ArrayLiteral", NIL, ctl.node.elements, ctl.env, stack)
    /\ UNCHANGED <<hostVars, envs, ghostVars>>

\* The loop of evalExpressions after one expression is evaluated, and, when
\* the loop ends, the caller's test of the slice it gets.
evalExpressionsNext ==
    /\ Returning("evalExpressions")
    /\ LET f == Head(stack)
           done == isError(ctl.val) \/ f.i = Len(f.exps)
           result == IF isError(ctl.val) THEN <<ctl.val>>
                     ELSE Append(f.result, ctl.val)
           next == afterExpressions(f.caller, f.function, result, nextId)
       IN IF done
          THEN /\ ctl' = next
               /\ stack' = Tail(stack)
               /\ nextId' = IF next.mode = "ret" /\ next.val.type = ARRAY_OBJ
                            THEN nextId + 1 ELSE nextId
          ELSE /\ ctl' = EvalCtl(f.exps[f.i + 1], f.env)
               /\ stack' = <<[f EXCEPT !.i = f.i + 1, !.result = result]>>
                           \o Tail(stack)
               /\ nextId' = nextId
    /\ UNCHANGED <<hostVars, envs, ghostVars>>

\* applyFunction on a *object.Function: bind the parameters in a new
\* environment and evaluate the body in it.
applyFunction ==
    /\ ctl.mode = "apply"
    /\ ctl.fn.type = FUNCTION_OBJ
    /\ LET x == extendFunctionEnv(envs, ctl.fn, ctl.args)
       IN IF x.panic
          THEN /\ ctl' = [mode |-> "panic", msg |-> "index out of range"]
               /\ UNCHANGED <<stack, envs, calls>>
          ELSE /\ ctl' = EvalCtl(ctl.fn.body, x.env)
               /\ envs' = x.heap
               /\ stack' = Push([kind |-> "applyFunction"])
               /\ calls' = <<[NoCall EXCEPT !.env = x.env,
                                            !.captured = ctl.fn.env]>> \o calls
    /\ UNCHANGED <<hostVars, nextId, lastCall>>

applyFunctionDone ==
    /\ Returning("applyFunction")
    /\ ctl' = Ret(unwrapReturnValue(ctl.val))
    /\ stack' = Tail(stack)
    /\ calls' = Tail(calls)
    /\ lastCall' = [finished |-> TRUE, call |-> Head(calls),
                    evaluated |-> ctl.val,
                    result |-> unwrapReturnValue(ctl.val)]
    /\ UNCHANGED <<hostVars, envs, nextId>>

\* applyFunction on a *object.Builtin: fn.Fn(args...)
applyBuiltin ==
    /\ ctl.mode = "apply"
    /\ ctl.fn.type = BUILTIN_OBJ
    /\ \E r \in BuiltinResults : ctl' = Ret(r)
    /\ UNCHANGED <<hostVars, stack, envs, nextId, ghostVars>>

\* applyFunction's default case; fn.Type() on a nil callee panics.
applyNotAFunction ==
    /\ ctl.mode = "apply"
    /\ ctl.fn.type \notin {FUNCTION_OBJ, BUILTIN_OBJ}
    /\ ctl' = IF IsNil(ctl.fn) THEN Finish(NilDeref)
              ELSE Ret(newError("not a function: " \o ctl.fn.type))
    /\ UNCHANGED <<hostVars, stack, envs, nextId, ghostVars>>

(***************************************************************************)
(* Eval: index expressions and hash literals.                              *)
(***************************************************************************)
EvalIndexExpression ==
    /\ Evaluating("IndexExpression")
    /\ ctl' = EvalCtl(ctl.node.left, ctl.env)
    /\ stack' = Push([kind |-> "IndexLeft", index |-> ctl.node.index,
                      env |-> ctl.env])
    /\ UNCHANGED <<hostVars, envs, nextId, ghostVars>>

IndexLeftDone ==
    /\ Returning("IndexLeft")
    /\ LET f == Head(stack)
       IN IF isError(ctl.val)
          THEN ctl' = Ret(ctl.val) /\ stack' = Tail(stack)
          ELSE /\ ctl' = EvalCtl(f.index, f.env)
               /\ stack' = <<[kind |-> "IndexIndex", left |-> ctl.val]>>
                           \o Tail(stack)
    /\ UNCHANGED <<hostVars, envs, nextId, ghostVars>>

IndexIndexDone ==
    /\ Returning("IndexIndex")
    /\ ctl' = IF isError(ctl.val) THEN Ret(ctl.val)
              ELSE Finish(evalIndexExpression(Head(stack).left, ctl.val))
    /\ stack' = Tail(stack)
    /\ UNCHANGED <<hostVars, envs, nextId, ghostVars>>

\* `for key, value := range node.Pairs': Go leaves the iteration order of a
\* map unspecified, so the next entry is any entry not yet visited.
\* visited lists the entries visited so far, the current one last.
EvalHashLiteral ==
    /\ Evaluating("HashLiteral")
    /\ nextId' = nextId + 1
    /\ \/ /\ Len(ctl.node.pairs) = 0
          /\ ctl' = Ret(Hash(nextId, EmptyStore))
          /\ stack' = stack
       \/ \E k \in 1..Len(ctl.node.pairs) :
            /\ ctl' = EvalCtl(ctl.node.pairs[k].key, ctl.env)
            /\ stack' = Push([kind |-> "HashKey", id |-> nextId,
                              node |-> ctl.node, visited |-> <<k>>,
                              pairs |-> EmptyStore, env |-> ctl.env])
    /\ UNCHANGED <<hostVars, envs, ghostVars>>

\* The key of the current entry is evaluated.
HashKeyDone ==
    /\ Returning("HashKey")
    /\ LET f == Head(stack)
           k == f.visited[Len(f.visited)]
       IN IF isError(ctl.val)
          THEN ctl' = Ret(ctl.val) /\ stack' = Tail(stack)
          ELSE IF IsNil(ctl.val)
          THEN ctl' = Finish(NilDeref) /\ stack' = Tail(stack)
          ELSE IF ~Hashable(ctl.val)
          THEN /\ ctl' = Ret(newError("unusable as hash key: " \o ctl.val.type))
               /\ stack' = Tail(stack)
          ELSE /\ ctl' = EvalCtl(f.node.pairs[k].value, f.env)
               /\ stack' = <<[kind |-> "HashValue", id |-> f.id,
                              node |-> f.node, visited |-> f.visited,
                              pairs |-> f.pairs, env |-> f.env,
                              keyObject |-> ctl.val,
                              hashedKey |-> HashKey(ctl.val)]>> \o Tail(stack)
    /\ UNCHANGED <<hostVars, envs, nextId, ghostVars>>

\* hash.Pairs[hashedKey] = object.HashPair{Key: keyObject, Value: valueObject}
storePair(pairs, hashedKey, keyObject, valueObject) ==
    [h \in (DOMAIN pairs) \cup {hashedKey} |->
        IF h = hashedKey THEN HashPair(keyObject, valueObject) ELSE pairs[h]]

\* The value of the current entry is evaluated: store the pair and go on
\* with another entry of the map, or return the hash.
HashValueDone ==
    /\ Returning("HashValue")
    /\ LET f == Head(stack)
           stored == storePair(f.pairs, f.hashedKey, f.keyObject, ctl.val)
           left == (1..Len(f.node.pairs)) \ {f.visited[j] : j \in 1..Len(f.visited)}
       IN \/ /\ isError(ctl.val)
             /\ ctl' = Ret(ctl.val)
             /\ stack' = Tail(stack)
          \/ /\ ~isError(ctl.val)
             /\ left = {}
             /\ ctl' = Ret(Hash(f.id, stored))
             /\ stack' = Tail(stack)
          \/ /\ ~isError(ctl.val)
             /\ \E k \in left :
                  /\ ctl' = EvalCtl(f.node.pairs[k].key, f.env)
                  /\ stack' = <<[kind |-> "HashKey", id |-> f.id,
                                 node |-> f.node,
                                 visited |-> Append(f.visited, k),
                                 pairs |-> stored, env |-> f.env]>>
                              \o Tail(stack)
    /\ UNCHANGED <<hostVars, envs, nextId, ghostVars>>

(***************************************************************************)
(* The programs the host evaluates. Monkey source is given in comments.    *)
(***************************************************************************)
ES(e) == ExpressionStatement(e)
Lit(v) == IntegerLiteral(v)
Id(n) == Identifier(n)
Fn(parameters, statements) == FunctionLiteral(parameters, BlockStatement(statements))
Call(f, arguments) == CallExpression(f, arguments)
If(c, statements) == IfExpression(c, BlockStatement(statements), NoNode)
IfElse(c, statements, others) ==
    IfExpression(c, BlockStatement(statements), BlockStatement(others))

\* if (true) { return 1 }: an expression that evaluates to a ReturnValue
ReturnOne == If(Boolean(TRUE), <<ReturnStatement(Lit(1))>>)
\* fn() { }(): an expression that evaluates to nil
CallEmpty == Call(Fn(<<>>, <<>>), <<>>)
\* if (false) { 1 }: an expression that evaluates to NULL
IfFalse == If(Boolean(FALSE), <<ES(Lit(1))>>)

\* The operand expressions of the operator programs, one or more per kind
\* of object an operand can evaluate to.
\* if (true) { }   (an empty block: nil)
IfEmpty == If(Boolean(TRUE), <<>>)

OperandExprs ==
    {Lit(v) : v \in (-MaxInt)..MaxInt}
    \cup {Boolean(TRUE), Boolean(FALSE), StringLiteral("a"), StringLiteral("b"),
          IfFalse, ArrayLiteral(<<Lit(1)>>), Fn(<<>>, <<>>),
          HashLiteral(<<>>), Id("len"), Id("undefined"), ReturnOne, CallEmpty,
          IfEmpty}

InfixOperators == {"+", "-", "*", "/", "<", ">", "==", "!=", "&&"}
PrefixOperators == {"!", "-", "~"}

\* [1, 2]  and  {"a": 1, true: 2}, as the left side of an index expression
IndexedExprs ==
    {ArrayLiteral(<<Lit(1), Lit(2)>>),
     HashLiteral(<<[key |-> StringLiteral("a"), value |-> Lit(1)],
                   [key |-> Boolean(TRUE), value |-> Lit(2)]>>),
     StringLiteral("a"), CallEmpty, Id("undefined")}

One(name, e) ==
    [name |-> name, lines |-> <<name>>, programs |-> <<Program(<<ES(e)>>)>>]

\* The places of a sub-expression s in an enclosing expression.
SignalContexts(s) ==
    {PrefixExpression("!", s),                         \* !s
     If(s, <<ES(Lit(1))>>),                            \* if (s) { 1 }
     Call(s, <<>>),                                    \* s()
     Call(Fn(<<"a">>, <<ES(Lit(2))>>), <<s>>),         \* fn(a) { 2 }(s)
     Call(Id("len"), <<s, Lit(1)>>),                   \* len(s, 1)
     ArrayLiteral(<<s, Lit(1)>>),                      \* [s, 1]
     IndexExpression(s, Lit(0)),                       \* s[0]
     HashLiteral(<<[key |-> s, value |-> Lit(1)]>>),   \* {s: 1}
     HashLiteral(<<[key |-> Lit(1), value |-> s]>>)}   \* {1: s}

SignalSessions ==
    {One("signal", e) : e \in SignalContexts(ReturnOne)
                              \cup SignalContexts(Id("undefined"))}

InfixSessions ==
    {One("infix", InfixExpression(op, l, r)) :
        op \in InfixOperators, l \in OperandExprs, r \in OperandExprs}
PrefixSessions ==
    {One("prefix", PrefixExpression(op, r)) :
        op \in PrefixOperators, r \in OperandExprs}
IndexSessions ==
    {One("index", IndexExpression(l, i)) :
        l \in IndexedExprs, i \in OperandExprs}

\* The body of a function whose return sits inside d if-blocks, each block
\* and the body itself going on with another statement after it:
\*   if (c) { if (c) { return 7; 99 }; 91 }; 92
RECURSIVE NestBody(_)
NestBody(d) ==
    IF d = 0 THEN <<ReturnStatement(Lit(7)), ES(Lit(99))>>
    ELSE <<ES(If(Id("c"), NestBody(d - 1))), ES(Lit(90 + d))>>

\* let f = fn(c) { <NestBody(d)> }; f(c)
NestSessions ==
    {[name |-> "nest", lines |-> <<"nest">>, depth |-> d, taken |-> c,
      programs |-> <<Program(<<LetStatement("f", Fn(<<"c">>, NestBody(d))),
                               ES(Call(Id("f"), <<Boolean(c)>>))>>)>>] :
        d \in 0..MaxNest, c \in BOOLEAN}

\* if (true) { let x = x + e }
StepX(e) == If(Boolean(TRUE), <<LetStatement("x", InfixExpression("+", Id("x"), e))>>)

Named(name, statements) ==
    [name |-> name, lines |-> <<name>>, programs |-> <<Program(statements)>>]

NamedSessions == {
    \* let x = if (true) { return 1 };
    Named("letReturn", <<LetStatement("x", ReturnOne)>>),
    \* [if (true) { return 1 }]
    Named("arrayReturn", <<ES(ArrayLiteral(<<ReturnOne>>))>>),
    \* {1: if (true) { return 1 }}
    Named("hashReturn",
          <<ES(HashLiteral(<<[key |-> Lit(1), value |-> ReturnOne]>>))>>),
    \* len(if (true) { return 1 })
    Named("builtinReturn", <<ES(Call(Id("len"), <<ReturnOne>>))>>),
    \* fn(a) { a }(if (true) { return 1 })
    Named("paramReturn",
          <<ES(Call(Fn(<<"a">>, <<ES(Id("a"))>>), <<ReturnOne>>))>>),
    \* return if (true) { return 1 };
    Named("returnReturn", <<ReturnStatement(ReturnOne)>>),
    \* fn() { return if (true) { return 1 }; }()
    Named("callReturnReturn",
          <<ES(Call(Fn(<<>>, <<ReturnStatement(ReturnOne)>>), <<>>))>>),
    \* if (true) { if (true) { return 3 }; 4 }; 5
    Named("topReturn",
          <<ES(If(Boolean(TRUE), <<ES(If(Boolean(TRUE),
                                         <<ReturnStatement(Lit(3))>>)),
                                   ES(Lit(4))>>)),
            ES(Lit(5))>>),
    \* let f = fn() { y }; let g = fn(y) { f() }; g(1)
    Named("callerScope",
          <<LetStatement("f", Fn(<<>>, <<ES(Id("y"))>>)),
            LetStatement("g", Fn(<<"y">>, <<ES(Call(Id("f"), <<>>))>>)),
            ES(Call(Id("g"), <<Lit(1)>>))>>),
    \* let x = 1; let f = fn() { x }; let x = 2; f()
    Named("laterLet",
          <<LetStatement("x", Lit(1)),
            LetStatement("f", Fn(<<>>, <<ES(Id("x"))>>)),
            LetStatement("x", Lit(2)),
            ES(Call(Id("f"), <<>>))>>),
    \* let x = 1; let f = fn(x) { let x = x + 10; x }; let r = f(5); x
    Named("shadow",
          <<LetStatement("x", Lit(1)),
            LetStatement("f", Fn(<<"x">>,
                <<LetStatement("x", InfixExpression("+", Id("x"), Lit(10))),
                  ES(Id("x"))>>)),
            LetStatement("r", Call(Id("f"), <<Lit(5)>>)),
            ES(Id("x"))>>),
    \* fn(a, b) { a }(1)
    Named("fewArgs", <<ES(Call(Fn(<<"a", "b">>, <<ES(Id("a"))>>), <<Lit(1)>>))>>),
    \* fn(a) { a }(1, 2)
    Named("manyArgs",
          <<ES(Call(Fn(<<"a">>, <<ES(Id("a"))>>), <<Lit(1), Lit(2)>>))>>),
    \* 1(2)
    Named("notAFunction", <<ES(Call(Lit(1), <<Lit(2)>>))>>),
    \* fn() { }()()
    Named("nilCallee", <<ES(Call(CallEmpty, <<>>))>>),
    \* undefined(1)
    Named("errorCallee", <<ES(Call(Id("undefined"), <<Lit(1)>>))>>),
    \* {1: 10, 1: 20}[1]
    Named("hashDuplicate",
          <<ES(IndexExpression(
                 HashLiteral(<<[key |-> Lit(1), value |-> Lit(10)],
                               [key |-> Lit(1), value |-> Lit(20)]>>),
                 Lit(1)))>>),
    \* {1: x, 2: y}
    Named("hashErrors",
          <<ES(HashLiteral(<<[key |-> Lit(1), value |-> Id("x")],
                             [key |-> Lit(2), value |-> Id("y")]>>))>>),
    \* {x: 1, []: 2, fn() { }(): 3}
    Named("hashKeys",
          <<ES(HashLiteral(<<[key |-> Id("x"), value |-> Lit(1)],
                             [key |-> ArrayLiteral(<<>>), value |-> Lit(2)],
                             [key |-> CallEmpty, value |-> Lit(3)]>>))>>),
    \* [1, 5 + true, y]
    Named("arrayError",
          <<ES(ArrayLiteral(<<Lit(1), InfixExpression("+", Lit(5), Boolean(TRUE)),
                              Id("y")>>))>>),
    \* fn(a, b, c) { a }(1, 5 + true, y)
    Named("argError",
          <<ES(Call(Fn(<<"a", "b", "c">>, <<ES(Id("a"))>>),
                    <<Lit(1), InfixExpression("+", Lit(5), Boolean(TRUE)),
                      Id("y")>>))>>),
    \* if (true) { let x = 1 }; x
    Named("blockLet",
          <<ES(If(Boolean(TRUE), <<LetStatement("x", Lit(1))>>)), ES(Id("x"))>>),
    \* let x = 1; if (true) { let x = 2 }; x
    Named("blockShadow",
          <<LetStatement("x", Lit(1)),
            ES(If(Boolean(TRUE), <<LetStatement("x", Lit(2))>>)),
            ES(Id("x"))>>),
    \* let x = 0; [undefined, if (true) { let x = 1 }]
    Named("arraySkip",
          <<LetStatement("x", Lit(0)),
            ES(ArrayLiteral(<<Id("undefined"),
                              If(Boolean(TRUE), <<LetStatement("x", Lit(1))>>)>>))>>),
    \* let x = 0; fn(a, b) { let x = 1; }(undefined, if (true) { let x = 1 })
    Named("argSkip",
          <<LetStatement("x", Lit(0)),
            ES(Call(Fn(<<"a", "b">>, <<LetStatement("x", Lit(1))>>),
                    <<Id("undefined"),
                      If(Boolean(TRUE), <<LetStatement("x", Lit(1))>>)>>))>>),
    \* let x = 0;
    \* [x, if (true) { let x = x + 1 }, x, if (true) { let x = x + x }, x]
    Named("arrayOrder",
          <<LetStatement("x", Lit(0)),
            ES(ArrayLiteral(<<Id("x"), StepX(Lit(1)), Id("x"), StepX(Id("x")),
                              Id("x")>>))>>),
    \* let x = 0;
    \* fn(a, b, c, d, e) { if (a == 0) { if (c == 1) { e } } }
    \*   (x, if (true) { let x = x + 1 }, x, if (true) { let x = x + x }, x)
    Named("argOrder",
          <<LetStatement("x", Lit(0)),
            ES(Call(Fn(<<"a", "b", "c", "d", "e">>,
                       <<ES(If(InfixExpression("==", Id("a"), Lit(0)),
                               <<ES(If(InfixExpression("==", Id("c"), Lit(1)),
                                       <<ES(Id("e"))>>))>>))>>),
                    <<Id("x"), StepX(Lit(1)), Id("x"), StepX(Id("x")),
                      Id("x")>>))>>),
    \* if (false) { 1 } else { 2 }
    Named("ifElse", <<ES(IfElse(Boolean(FALSE), <<ES(Lit(1))>>, <<ES(Lit(2))>>))>>),
    \* if (undefined) { 1 }
    Named("ifError", <<ES(If(Id("undefined"), <<ES(Lit(1))>>))>>),
    \* let a = [1]; a == a
    Named("sameArray",
          <<LetStatement("a", ArrayLiteral(<<Lit(1)>>)),
            ES(InfixExpression("==", Id("a"), Id("a")))>>),
    \* let x = undefined; x
    Named("letError", <<LetStatement("x", Id("undefined")), ES(Id("x"))>>),
    \* return undefined; 1
    Named("returnError", <<ReturnStatement(Id("undefined")), ES(Lit(1))>>),
    \* (the empty program)
    Named("empty", <<>>),
    \* []
    Named("emptyArray", <<ES(ArrayLiteral(<<>>))>>)
    }

\* The lines of an interactive session: the host evaluates each with the
\* same top-level Environment.
ReplLine(line) ==
    CASE line = "defF" ->   \* let x = 1; let f = fn() { x }; f()
           Program(<<LetStatement("x", Lit(1)),
                     LetStatement("f", Fn(<<>>, <<ES(Id("x"))>>)),
                     ES(Call(Id("f"), <<>>))>>)
      [] line = "setX" ->   \* let x = 2; f()
           Program(<<LetStatement("x", Lit(2)), ES(Call(Id("f"), <<>>))>>)
      [] line = "adder" ->
           \* let adder = fn(x) { fn(y) { x + y } }; let add5 = adder(5); add5(3)
           Program(<<LetStatement("adder",
                        Fn(<<"x">>, <<ES(Fn(<<"y">>,
                            <<ES(InfixExpression("+", Id("x"), Id("y")))>>))>>)),
                     LetStatement("add5", Call(Id("adder"), <<Lit(5)>>)),
                     ES(Call(Id("add5"), <<Lit(3)>>))>>)
      [] line = "add7" ->   \* add5(7)
           Program(<<ES(Call(Id("add5"), <<Lit(7)>>))>>)
      [] line = "shadowX" ->   \* let g = fn(x) { let x = x + 10; x }; g(5)
           Program(<<LetStatement("g", Fn(<<"x">>,
                        <<LetStatement("x", InfixExpression("+", Id("x"), Lit(10))),
                          ES(Id("x"))>>)),
                     ES(Call(Id("g"), <<Lit(5)>>))>>)
      [] line = "readX" ->   \* x
           Program(<<ES(Id("x"))>>)

ReplLines == {"defF", "setX", "adder", "add7", "shadowX", "readX"}

RECURSIVE LinesUpTo(_)
LinesUpTo(n) ==
    IF n = 0 THEN {<<>>}
    ELSE LinesUpTo(n - 1)
         \cup {Append(ls, l) : ls \in LinesUpTo(n - 1), l \in ReplLines}

ReplSessions ==
    {[name |-> "repl", lines |-> ls,
      programs |-> [i \in 1..Len(ls) |-> ReplLine(ls[i])]] :
        ls \in LinesUpTo(MaxEvals) \ {<<>>}}

Scripts ==
    InfixSessions \cup PrefixSessions \cup IndexSessions \cup SignalSessions
    \cup NestSessions \cup NamedSessions \cup ReplSessions

\* A session: one of the two evaluators, and what the host has it evaluate.
Sessions ==
    {[evaluator |-> v, script |-> x] : v \in Evaluators, x \in Scripts}

(***************************************************************************)
(* The specification.                                                      *)
(***************************************************************************)
Init ==
    /\ session \in Sessions
    /\ inputs = session.script.programs
    /\ results = <<>>
    /\ ctl = [mode |-> "idle"]
    /\ stack = <<>>
    /\ envs = <<NewEnvironment>>
    /\ nextId = 1
    /\ calls = <<>>
    /\ lastCall = [finished |-> FALSE, call |-> NoCall, evaluated |-> NIL,
                   result |-> NIL]

Next ==
    \/ HostEval \/ HostReturn
    \/ EvalProgram \/ evalProgramNext
    \/ EvalExpressionStatement
    \/ EvalBlockStatement \/ evalStatementsNext
    \/ EvalReturnStatement \/ ReturnStatementDone
    \/ EvalLetStatement \/ LetStatementDone
    \/ EvalNoCase
    \/ EvalIntegerLiteral \/ EvalBoolean \/ EvalStringLiteral
    \/ EvalPrefixExpression \/ PrefixRightDone
    \/ EvalInfixExpression \/ InfixLeftDone \/ InfixRightDone
    \/ EvalIfExpression \/ evalIfExpression
    \/ EvalIdentifier \/ EvalFunctionLiteral
    \/ EvalCallExpression \/ CallFunctionDone \/ EvalArrayLiteral
    \/ evalExpressionsNext
    \/ applyFunction \/ applyFunctionDone \/ applyBuiltin \/ applyNotAFunction
    \/ EvalIndexExpression \/ IndexLeftDone \/ IndexIndexDone
    \/ EvalHashLiteral \/ HashKeyDone \/ HashValueDone

Spec == Init /\ [][Next]_vars

(***************************************************************************)
(* Properties.                                                             *)
(***************************************************************************)
IsSignal(obj) == obj.type \in {RETURN_VALUE_OBJ, ERROR_OBJ}
IsInteger(obj, v) == obj.type = INTEGER_OBJ /\ obj.value = v
IsError(obj, m) == obj.type = ERROR_OBJ /\ obj.message = m
\* The lines of the session evaluated before line k.
Earlier(k, line) == \E j \in 1..(k - 1) : session.script.lines[j] = line
\* The expression of a session that evaluates one expression statement.
TheExpression == session.script.programs[1].statements[1].expression

\* C1: a return reached through nothing but enclosing blocks of a function
\* body (if-expressions in statement position, nested to any depth) ends the
\* call with its value: the ReturnValue arrives at applyFunction as the object
\* the return statement made, applyFunction returns its inner value, and no
\* further statement of an enclosing block of that body is evaluated.
C1_ReturnBubbles ==
    /\ lastCall.finished /\ ~IsNil(lastCall.call.firstReturn) =>
          /\ lastCall.evaluated = lastCall.call.firstReturn
          /\ lastCall.result = lastCall.call.firstReturn.value
          /\ lastCall.call.after = 0
    /\ session.script.name = "nest" /\ results # <<>> /\ session.script.taken =>
          IsInteger(results[1], 7)

C1_Witness ==
    /\ session.script.name = "nest"
    /\ session.script.depth >= 2
    /\ session.script.taken
    /\ lastCall.finished
    /\ ~IsNil(lastCall.call.firstReturn)
    /\ IsInteger(lastCall.result, 7)

\* Whether no Array or Hash inside obj holds a ReturnValue or an Error.
RECURSIVE NoSignalInside(_)
NoSignalInside(obj) ==
    CASE obj.type = ARRAY_OBJ ->
           \A i \in 1..Len(obj.elements) :
              ~IsSignal(obj.elements[i]) /\ NoSignalInside(obj.elements[i])
      [] obj.type = HASH_OBJ ->
           \A h \in DOMAIN obj.pairs :
              /\ ~IsSignal(obj.pairs[h].key)
              /\ ~IsSignal(obj.pairs[h].value)
              /\ NoSignalInside(obj.pairs[h].value)
      [] obj.type = RETURN_VALUE_OBJ -> NoSignalInside(obj.value)
      [] OTHER -> TRUE

\* C2: in every reachable state no Environment binding, no Array element, no
\* Hash pair key or value and no argument handed to a Builtin is a
\* ReturnValue or an Error.
C2_NoSignalStored ==
    /\ \A e \in 1..Len(envs) : \A n \in DOMAIN envs[e].store :
          ~IsSignal(envs[e].store[n]) /\ NoSignalInside(envs[e].store[n])
    /\ ctl.mode = "ret" => NoSignalInside(ctl.val)
    /\ ctl.mode = "apply" /\ ctl.fn.type = BUILTIN_OBJ =>
          \A i \in 1..Len(ctl.args) :
             ~IsSignal(ctl.args[i]) /\ NoSignalInside(ctl.args[i])

\* C3: the object Eval returns for a Program is never a ReturnValue, and the
\* object returned by applying a Function is never a ReturnValue.
C3_NoReturnValueEscapes ==
    /\ \A k \in 1..Len(results) : results[k].type # RETURN_VALUE_OBJ
    /\ lastCall.finished => lastCall.result.type # RETURN_VALUE_OBJ

\* C4: the environment of a call is enclosed by the environment the function
\* captured, so a free name of the body resolves there and not in the
\* caller's scope: a name bound only in the caller is not found, add5(3) is
\* 8 and a later add5(7) is 12.
C4_LexicalScope ==
    /\ \A i \in 1..Len(calls) : envs[calls[i].env].outer = calls[i].captured
    /\ ctl.mode = "eval" /\ calls # <<>> => ctl.env = Head(calls).env
    /\ \A k \in 1..Len(results) :
          /\ session.script.lines[k] = "adder" => IsInteger(results[k], 8)
          /\ session.script.lines[k] = "add7" /\ Earlier(k, "adder") =>
                IsInteger(results[k], 12)
          /\ session.script.lines[k] = "callerScope" =>
                IsError(results[k], "identifier not found: y")

C4_Witness ==
    /\ session.script.lines = <<"adder", "add7">>
    /\ Len(results) = 2
    /\ IsInteger(results[1], 8)
    /\ IsInteger(results[2], 12)

\* What the calls of a function defined before a later let return.
C5Results ==
    \A k \in 1..Len(results) :
       /\ session.script.lines[k] = "defF" => IsInteger(results[k], 1)
       /\ session.script.lines[k] = "setX" /\ Earlier(k, "defF") =>
             IsInteger(results[k], 2)
       /\ session.script.lines[k] = "laterLet" => IsInteger(results[k], 2)

\* C5: a function literal evaluates to a Function that holds the very
\* environment it was evaluated in (no copy is made), so a name bound or
\* overwritten there afterwards, by a later let of the same program or of a
\* later top-level Eval call, is what every later call of the function reads.
C5_SharedEnvironment ==
    [][/\ Evaluating("FunctionLiteral") =>
             /\ ctl'.mode = "ret"
             /\ ctl'.val.env = ctl.env
             /\ envs' = envs
       /\ C5Results']_vars

C5_Witness ==
    /\ session.script.lines = <<"defF", "setX">>
    /\ Len(results) = 2
    /\ IsInteger(results[1], 1)
    /\ IsInteger(results[2], 2)

\* What the programs that shadow the top-level x return.
C6Results ==
    \A k \in 1..Len(results) :
       /\ session.script.lines[k] = "shadowX" => IsInteger(results[k], 15)
       /\ session.script.lines[k] = "shadow" =>
             /\ IsInteger(results[k], 1)
             /\ IsInteger(envs[1].store["r"], 15)
       /\ session.script.lines[k] = "readX" /\ Earlier(k, "defF")
             /\ ~Earlier(k, "setX") => IsInteger(results[k], 1)

\* C6: a step changes the store of at most the environment Set is called on:
\* a let changes only the binding of its name in the current environment, and
\* a call binds its parameters in a new environment and leaves every existing
\* one as it was; the shadowed binding is read inside the call, and the
\* enclosing scope's binding has its previous value after it.
C6_SetIsLocal ==
    [][/\ Len(envs') >= Len(envs)
       /\ \A e \in 1..Len(envs) :
             envs'[e] # envs[e] =>
                /\ Returning("LetStatement")
                /\ e = Head(stack).env
                /\ envs'[e].outer = envs[e].outer
                /\ \A n \in (DOMAIN envs[e].store) \ {Head(stack).name} :
                      /\ n \in DOMAIN envs'[e].store
                      /\ envs'[e].store[n] = envs[e].store[n]
       /\ C6Results']_vars

C6_Witness ==
    /\ session.script.name = "shadow"
    /\ results # <<>>
    /\ IsInteger(results[1], 1)
    /\ IsInteger(envs[1].store["r"], 15)

\* C7: Eval returns to its caller with a value or an Error and never aborts
\* the host with a runtime panic.
C7_NoPanic == ctl.mode # "panic"

\* C8: a hash literal's pairs are processed in source order: the entries
\* visited are always the first ones of the literal in their order, of two
\* pairs with the same hash key the later one is stored, and of two pairs
\* that fault the Error is the earlier one's.
C8_HashInSourceOrder ==
    /\ \A i \in 1..Len(stack) :
          stack[i].kind \in {"HashKey", "HashValue"} =>
             \A j \in 1..Len(stack[i].visited) : stack[i].visited[j] = j
    /\ session.script.name = "hashDuplicate" /\ results # <<>> =>
          IsInteger(results[1], 20)
    /\ session.script.name = "hashErrors" /\ results # <<>> =>
          IsError(results[1], "identifier not found: x")

\* The operands of an infix operator are evaluated, both are objects, and
\* they are not both Integer and not both String.
C9Case ==
    /\ Returning("InfixRight")
    /\ ~isError(ctl.val)
    /\ ~IsNil(Head(stack).left)
    /\ ~IsNil(ctl.val)
    /\ ~(Head(stack).left.type = INTEGER_OBJ /\ ctl.val.type = INTEGER_OBJ)
    /\ ~(Head(stack).left.type = STRING_OBJ /\ ctl.val.type = STRING_OBJ)

\* Two Strings are the operands of == or !=.
C9Strings ==
    /\ Returning("InfixRight")
    /\ Head(stack).left.type = STRING_OBJ
    /\ ctl.val.type = STRING_OBJ
    /\ Head(stack).operator \in {"==", "!="}

C9Results ==
    session.script.name = "infix" /\ results # <<>> =>
       LET e == TheExpression
       IN /\ e = InfixExpression("==", Boolean(TRUE), Boolean(TRUE)) =>
                results[1] = TRUE_OBJ
          /\ e = InfixExpression("==", Boolean(TRUE), Boolean(FALSE)) =>
                results[1] = FALSE_OBJ
          /\ e = InfixExpression("==", Lit(1), Boolean(TRUE)) =>
                results[1] = FALSE_OBJ
          /\ e = InfixExpression("!=", Lit(1), Boolean(TRUE)) =>
                results[1] = TRUE_OBJ

\* C9: on two operands that are not both Integer and not both String, == and
\* != return the canonical Boolean of pointer identity and never an Error;
\* every other operator returns the Error `type mismatch: L op R' when the
\* kinds differ and `unknown operator: L op R' when they are equal; two
\* Strings are compared by content for == and !=.
C9_EqualityNeverFaults ==
    [][/\ C9Case =>
             LET op == Head(stack).operator
                 l == Head(stack).left
                 r == ctl.val
                 text == l.type \o " " \o op \o " " \o r.type
             IN /\ ctl'.mode = "ret"
                /\ op = "==" =>
                      ctl'.val = (IF SamePointer(l, r) THEN TRUE_OBJ ELSE FALSE_OBJ)
                /\ op = "!=" =>
                      ctl'.val = (IF SamePointer(l, r) THEN FALSE_OBJ ELSE TRUE_OBJ)
                /\ op \notin {"==", "!="} /\ l.type # r.type =>
                      IsError(ctl'.val, "type mismatch: " \o text)
                /\ op \notin {"==", "!="} /\ l.type = r.type =>
                      IsError(ctl'.val, "unknown operator: " \o text)
       /\ C9Strings =>
             /\ ctl'.mode = "ret"
             /\ ctl'.val = (IF (Head(stack).left.str = ctl.val.str)
                               = (Head(stack).operator = "==")
                            THEN TRUE_OBJ ELSE FALSE_OBJ)
       /\ C9Results']_vars

C9_Witness ==
    /\ session.script.name = "infix"
    /\ TheExpression = InfixExpression("==", Lit(1), Boolean(TRUE))
    /\ results = <<FALSE_OBJ>>

\* The frames of the Eval cases that wait for a sub-expression.
SubExpressionFrames ==
    {"PrefixExpression", "InfixLeft", "InfixRight", "evalIfExpression",
     "CallFunction", "evalExpressions", "IndexLeft", "IndexIndex", "HashKey",
     "HashValue", "LetStatement"}

\* A sub-expression has returned a ReturnValue or an Error to such a case.
C10Case ==
    /\ ctl.mode = "ret"
    /\ IsSignal(ctl.val)
    /\ stack # <<>>
    /\ Head(stack).kind \in SubExpressionFrames

\* C10: when a sub-expression yields a ReturnValue or an Error, the enclosing
\* expression returns that same object at once: it evaluates nothing further
\* and applies no operator, truthiness test, call or binding to it.
C10_SignalsPropagate ==
    [][C10Case =>
          /\ ctl' = ctl
          /\ stack' = Tail(stack)
          /\ envs' = envs]_vars

(***************************************************************************)
(* C11: let in the block of an if-branch.                                  *)
(***************************************************************************)
\* A let statement of an if-branch block is about to bind its name: the
\* frame under it is the statement loop of a block that is not the body a
\* function call is running. evalIfExpression hands its own env to the
\* branch, so the env of that loop is the one the if-expression was
\* evaluated in.
C11Case ==
    /\ Returning("LetStatement")
    /\ ~isError(ctl.val)
    /\ Len(stack) >= 3
    /\ stack[2].kind = "evalStatements"
    /\ stack[3].kind # "applyFunction"

\* C11: a let statement executed in an if-branch block binds its name in a
\* scope of that block: the environment the if-expression was evaluated in
\* is left as it was, the name neither added to it nor overwritten in it.
C11_BlockScopedLet ==
    [][C11Case => envs'[stack[2].env] = envs[stack[2].env]]_vars

(***************************************************************************)
(* C12: the arguments of a call and the elements of an array literal.      *)
(***************************************************************************)
\* What the sessions that watch the order of evaluation end with. A later
\* argument or element that is evaluated sets x, and the ones before it read
\* x.
C12Results ==
    ctl.mode = "idle" /\ inputs = <<>> =>
       /\ session.script.name = "arraySkip" /\ Extended =>
             /\ IsError(results[1], "identifier not found: undefined")
             /\ IsInteger(envs[1].store["x"], 0)
       /\ session.script.name = "argSkip" =>
             /\ IsError(results[1], "identifier not found: undefined")
             /\ IsInteger(envs[1].store["x"], 0)
             /\ Len(envs) = 1
       /\ session.script.name = "arrayError" /\ Extended =>
             IsError(results[1], "type mismatch: INTEGER + BOOLEAN")
       /\ session.script.name = "argError" =>
             IsError(results[1], "type mismatch: INTEGER + BOOLEAN")
       /\ session.script.name = "arrayOrder" /\ Extended =>
             /\ results[1].type = ARRAY_OBJ
             /\ Len(results[1].elements) = 5
             /\ IsInteger(results[1].elements[1], 0)
             /\ IsInteger(results[1].elements[3], 1)
             /\ IsInteger(results[1].elements[5], 2)
             /\ IsInteger(envs[1].store["x"], 2)
       /\ session.script.name = "argOrder" =>
             /\ IsInteger(results[1], 2)
             /\ IsInteger(envs[1].store["x"], 2)

\* The expressions of a list evaluated so far are the first ones, each once,
\* and none of the kept results is an Error.
C12Frames ==
    \A k \in 1..Len(stack) :
       stack[k].kind = "evalExpressions" =>
          /\ Len(stack[k].result) = stack[k].i - 1
          /\ \A j \in 1..Len(stack[k].result) : ~isError(stack[k].result[j])

\* C12: when an argument of a call or an element of an array literal
\* evaluates to an Error, that Error is the result of the call or array
\* expression at once: no later argument or element is evaluated, the callee
\* is not applied, no Array is built and no environment is made or changed.
\* When it is no Error the next expression of the list is evaluated with the
\* result appended to the ones kept, and after the last one the callee is
\* applied to, or the Array holds, all the results in order.
C12_FirstErrorStops ==
    [][/\ C12Frames'
       /\ C12Results'
       /\ Returning("evalExpressions") =>
             LET f == Head(stack)
                 all == Append(f.result, ctl.val)
             IN IF isError(ctl.val)
                THEN /\ ctl' = Ret(ctl.val)
                     /\ stack' = Tail(stack)
                     /\ nextId' = nextId
                     /\ envs' = envs
                     /\ calls' = calls
                ELSE IF f.i < Len(f.exps)
                THEN /\ ctl' = EvalCtl(f.exps[f.i + 1], f.env)
                     /\ Head(stack').result = all
                     /\ Head(stack').i = f.i + 1
                     /\ Tail(stack') = Tail(stack)
                ELSE IF f.caller = "CallExpression"
                THEN /\ ctl'.mode = "apply"
                     /\ ctl'.fn = f.function
                     /\ ctl'.args = all
                     /\ stack' = Tail(stack)
                ELSE /\ ctl'.mode = "ret"
                     /\ ctl'.val.type = ARRAY_OBJ
                     /\ ctl'.val.elements = all
                     /\ stack' = Tail(stack)]_vars

\* A call whose first argument is an Error has ended with that Error, its
\* later argument not evaluated and its callee not applied.
C12_Witness ==
    /\ session.script.name = "argSkip"
    /\ ctl.mode = "idle"
    /\ inputs = <<>>
    /\ IsError(results[1], "identifier not found: undefined")
    /\ IsInteger(envs[1].store["x"], 0)
    /\ Len(envs) = 1

(***************************************************************************)
(* C13: nil results.                                                       *)
(***************************************************************************)
\* The frames that wait for the operand of a prefix, infix or index
\* operator, for the condition of an if-expression, for the value of a let
\* statement, or for an argument or an array element.
OperandFrames ==
    {"PrefixExpression", "InfixLeft", "InfixRight", "IndexLeft", "IndexIndex",
     "evalIfExpression", "LetStatement", "evalExpressions"}

\* C13: Eval returns an object for every expression: the result handed to a
\* prefix, infix or index operator or to the truthiness test is never nil,
\* and neither is a value bound by let or kept for an Array.
C13_EvalNeverNil ==
    /\ ctl.mode = "ret" /\ stack # <<>> /\ Head(stack).kind \in OperandFrames
          => ~IsNil(ctl.val)
    /\ \A e \in 1..Len(envs) :
          \A n \in DOMAIN envs[e].store : ~IsNil(envs[e].store[n])

====
